---- MODULE Spec2Model ----
(***************************************************************************)
(* Model of the resource registry of CesiumUtils                           *)
(* (frontend/src/utils/cesium/CesiumUtils.ts): the eight private           *)
(* partitions (default/custom x entity, primitive, imagery layer, GeoJSON  *)
(* data source), the viewer reference, and the scene collections of the    *)
(* viewer the registry mutates.                                            *)
(*                                                                         *)
(* Scene objects are handles (positive integers).  `new Primitive`, a new  *)
(* ImageryLayer or a loaded GeoJsonDataSource is a handle that nothing in  *)
(* the registry, the scene or a pending request refers to.  The scene      *)
(* collections hold the objects created through the registry only (the     *)
(* base layers added by initCesiumViewer are never registered).            *)
(*                                                                         *)
(* The viewer reference of the Pinia store (frontend/src/stores/           *)
(* useCesiumStore.ts) is modelled next to it, over its own Viewer          *)
(* instances.                                                              *)
(***************************************************************************)
EXTENDS Integers, Sequences, FiniteSets, Bags, TLC

\* ------------------------------------------------------------- bounds
Ids == {"a", "b"}

MaxHandles == 2

MaxBatch == 2

MaxRequests == 2

\* destroy() calls counted on one Viewer instance.
MaxDestroyCalls == 2

\* Viewer instances handed to the store.
MaxViewers == 2

\* The longest byte sequence handed to the decoder.
MaxBytes == 25

Handles == 1..MaxHandles

Undefined == 0

Kinds == {"entity", "primitive", "layer", "geojson", "store"}

ViewerInstances == 1..MaxViewers

\* viewer.value of the store when it holds no instance.
NoViewer == 0

PrimitiveTypes == {"point", "polyline", "polygon", "billboard"}

\* The types of the lists handed to addPrimitivesBatch: the first and the last
\* group of the four, a Primitive and a BillboardCollection.
PrimitiveInputTypes == {"point", "billboard"}

ClearType == {"default", "custom", "all"}

\* A clear function called without its argument.
Omitted == "omitted"

ClearArguments == ClearType \cup {Omitted}

VARIABLES
  kind,                 \* the resource kind this behaviour exercises
  viewer,               \* #viewer: "null", or the state of the Viewer it refers
                        \* to, "live" or "destroyed"
  destroyCalls,         \* destroy() calls made on the Viewer #viewer refers to
  replacedLive,         \* a Viewer was replaced in #viewer while it was live
  storeViewer,          \* viewer.value of useCesiumStore
  viewerDestroyCalls,   \* destroy() calls made on each instance given to the store
  defaultEntityIds, customEntityIds,
  sceneEntities,        \* ids held by viewer.entities
  defaultPrimitiveMap, customPrimitiveMap,
  scenePrimitives,      \* handles held by viewer.scene.primitives
  defaultLayerMap, customLayerMap,
  sceneLayers,          \* handles held by viewer.imageryLayers
  defaultGeoJsonMap, customGeoJsonMap,
  sceneDataSources,     \* handles held by viewer.dataSources
  requests,             \* the bag of addGeoJsonLayer calls suspended at an await
  ewkbHex,              \* the text handed to addEWkbLayer as its ewkb argument
  parsed,               \* what #parseEWKB made of it in the last addEWkbLayer call
  dataSourceShow,       \* show of each registered data source
  labelShow             \* show of the labels of its entities

entityVars == <<defaultEntityIds, customEntityIds, sceneEntities>>

primitiveVars == <<defaultPrimitiveMap, customPrimitiveMap, scenePrimitives>>

layerVars == <<defaultLayerMap, customLayerMap, sceneLayers>>

showVars == <<dataSourceShow, labelShow>>

geoVars == <<defaultGeoJsonMap, customGeoJsonMap, sceneDataSources, requests, showVars>>

viewerVars == <<viewer, destroyCalls, replacedLive>>

storeVars == <<storeViewer, viewerDestroyCalls>>

ewkbVars == <<ewkbHex, parsed>>

vars == <<kind, viewerVars, storeVars, ewkbVars, entityVars, primitiveVars, layerVars, geoVars>>

\* ------------------------------------------------------------- Map<string, T>
EmptyMap == [k \in {} |-> Undefined]

MapHas(m, k) == k \in DOMAIN m

MapGet(m, k) == IF k \in DOMAIN m THEN m[k] ELSE Undefined

MapSet(m, k, v) == [x \in (DOMAIN m) \cup {k} |-> IF x = k THEN v ELSE m[x]]

MapDelete(m, k) == [x \in (DOMAIN m) \ {k} |-> m[x]]

MapValues(m) == {m[k] : k \in DOMAIN m}

\* A handle for a newly constructed object: the least one not in `used` (one
\* past the pool when the pool is used up, which the guards of the actions
\* keep from happening in a step).
Fresh(used) ==
  IF Handles \ used = {} THEN MaxHandles + 1
  ELSE CHOOSE h \in Handles \ used : \A g \in Handles \ used : h <= g

\* A sub-registry with its scene collection: d and c are the default and the
\* custom partition, s the scene collection of the viewer.
Reg(d, c, s) == [d |-> d, c |-> c, s |-> s]

Out(st, ret) == [st |-> st, ret |-> ret]

Entities == Reg(defaultEntityIds, customEntityIds, sceneEntities)

Primitives == Reg(defaultPrimitiveMap, customPrimitiveMap, scenePrimitives)

Layers == Reg(defaultLayerMap, customLayerMap, sceneLayers)

GeoJsons == Reg(defaultGeoJsonMap, customGeoJsonMap, sceneDataSources)

\* Sequences over S of length 0..n (the arrays handed to the batch operations).
RECURSIVE SeqsUpTo(_, _)
SeqsUpTo(S, n) ==
  IF n = 0 THEN {<<>>}
  ELSE LET shorter == SeqsUpTo(S, n - 1)
       IN shorter \cup {Append(q, x) : q \in shorter, x \in S}

\* The arrays of ids handed to the batchRemove operations.
IdLists == SeqsUpTo(Ids, MaxBatch)

\* ------------------------------------------------------------- clear helpers
getTargetIdsByType(clearType, defaultSet, customSet) ==
  (IF clearType \in {"default", "all"} THEN defaultSet ELSE {})
    \cup (IF clearType \in {"custom", "all"} THEN customSet ELSE {})

\* targetMap.set(key, value) for the default entries, then for the custom ones:
\* a key of both maps keeps the custom value.
getTargetMapByType(clearType, defaultMap, customMap) ==
  LET dm == IF clearType \in {"default", "all"} THEN defaultMap ELSE EmptyMap
      cm == IF clearType \in {"custom", "all"} THEN customMap ELSE EmptyMap
  IN [k \in (DOMAIN dm) \cup (DOMAIN cm) |-> IF k \in DOMAIN cm THEN cm[k] ELSE dm[k]]

clearCollectionsByType(clearType, st) ==
  Reg(IF clearType \in {"default", "all"} THEN {} ELSE st.d,
      IF clearType \in {"custom", "all"} THEN {} ELSE st.c,
      st.s)

clearMapsByType(clearType, st) ==
  Reg(IF clearType \in {"default", "all"} THEN EmptyMap ELSE st.d,
      IF clearType \in {"custom", "all"} THEN EmptyMap ELSE st.c,
      st.s)

\* A clear function called without its argument clearing everything.
clearTypeParameter_all(clearType) == IF clearType = Omitted THEN "all" ELSE clearType

\* clearType: ClearType = 'custom'
clearTypeParameter(clearType) == IF clearType = Omitted THEN "custom" ELSE clearType

\* ------------------------------------------------------------- entities
\* #validateUniqueId looking at the custom set only.
validateUniqueId_customOnly(st, id) == id \in st.c

validateUniqueId(st, id) == id \in st.d \/ id \in st.c

entityExists(st, id) == id \in st.d \/ id \in st.c

storeEntityId(st, id, isDefault) ==
  IF isDefault THEN Reg(st.d \cup {id}, st.c, st.s) ELSE Reg(st.d, st.c \cup {id}, st.s)

removeEntityId(st, id) == Reg(st.d \ {id}, st.c \ {id}, st.s)

\* The failing validations of addCesiumEntity, in the order they are made.
EntityOptions == {"valid", "noId", "noPosition", "badGraphics"}

\* st is the state after the call, ret "throw" or "entity".
addEntity(st, id, isDefault, opt) ==
  IF opt = "noId" \/ opt = "noPosition" THEN Out(st, "throw")
  ELSE IF validateUniqueId(st, id) THEN Out(st, "throw")
  ELSE IF opt = "badGraphics" THEN Out(st, "throw")
  ELSE LET added == IF viewer = "live" THEN Reg(st.d, st.c, st.s \cup {id}) ELSE st
       IN Out(storeEntityId(added, id, isDefault), "entity")

removeEntity(st, entityId) ==
  IF ~entityExists(st, entityId) THEN Out(st, "false")
  ELSE IF viewer = "live" /\ entityId \in st.s
    THEN Out(removeEntityId(Reg(st.d, st.c, st.s \ {entityId}), entityId), "true")
    ELSE Out(st, "false")

RECURSIVE batchRemoveEntities(_, _)
batchRemoveEntities(st, entityIds) ==
  IF entityIds = <<>> THEN st
  ELSE batchRemoveEntities(removeEntity(st, Head(entityIds)).st, Tail(entityIds))

clearEntities(st, clearType) ==
  LET targetIds == getTargetIdsByType(clearType, st.d, st.c)
      swept == IF viewer = "live" THEN Reg(st.d, st.c, st.s \ targetIds) ELSE st
  IN clearCollectionsByType(clearType, swept)

SetEntities(st) ==
  /\ defaultEntityIds' = st.d
  /\ customEntityIds' = st.c
  /\ sceneEntities' = st.s

addCesiumEntity(id, isDefault, opt) ==
  /\ kind = "entity"
  /\ viewer # "destroyed"
  /\ SetEntities(addEntity(Entities, id, isDefault, opt).st)
  /\ UNCHANGED <<kind, ewkbVars, viewerVars, storeVars, primitiveVars, layerVars, geoVars>>

removeCesiumEntity(entityId) ==
  /\ kind = "entity"
  /\ viewer # "destroyed"
  /\ SetEntities(removeEntity(Entities, entityId).st)
  /\ UNCHANGED <<kind, ewkbVars, viewerVars, storeVars, primitiveVars, layerVars, geoVars>>

batchRemoveCesiumEntities(entityIds) ==
  /\ kind = "entity"
  /\ viewer # "destroyed"
  /\ SetEntities(batchRemoveEntities(Entities, entityIds))
  /\ UNCHANGED <<kind, ewkbVars, viewerVars, storeVars, primitiveVars, layerVars, geoVars>>

clearAllEntities(clearType) ==
  /\ kind = "entity"
  /\ viewer # "destroyed"
  /\ SetEntities(clearEntities(Entities, clearTypeParameter(clearType)))
  /\ UNCHANGED <<kind, ewkbVars, viewerVars, storeVars, primitiveVars, layerVars, geoVars>>

\* ------------------------------------------------------------- primitives
\* PrimitiveOptions: the fields the registry reads.
PrimitiveOption == [id : Ids, type : PrimitiveInputTypes, default : BOOLEAN]

\* The arrays handed to addPrimitivesBatch.
PrimitiveLists == SeqsUpTo(PrimitiveOption, MaxBatch)

\* #validatePrimitiveUniqueId looking at the default map only.
validatePrimitiveUniqueId_defaultOnly(st, id) == MapHas(st.d, id)

validatePrimitiveUniqueId(st, id) == MapHas(st.d, id) \/ MapHas(st.c, id)

\* The options of one type, in list order (grouped.points, grouped.polylines, ...).
groupPrimitivesByType(primitives, type) == SelectSeq(primitives, LAMBDA o : o.type = type)

getPrimitiveInfo(st, id) ==
  [isDefault |-> MapHas(st.d, id),
   primitive |-> IF MapHas(st.d, id) THEN st.d[id] ELSE MapGet(st.c, id)]

removePrimitiveId(st, id, isDefault) ==
  IF isDefault THEN Reg(MapDelete(st.d, id), st.c, st.s)
  ELSE Reg(st.d, MapDelete(st.c, id), st.s)

RECURSIVE storePrimitives(_, _, _)
storePrimitives(st, options, primitive) ==
  IF options = <<>> THEN st
  ELSE LET option == Head(options)
           stored == IF option.default
                       THEN Reg(MapSet(st.d, option.id, primitive), st.c, st.s)
                       ELSE Reg(st.d, MapSet(st.c, option.id, primitive), st.s)
       IN storePrimitives(stored, Tail(options), primitive)

PrimitivesInUse(st) == st.s \cup MapValues(st.d) \cup MapValues(st.c)

\* #addPointPrimitives, #addPolylinePrimitives, #addPolygonPrimitives and
\* #addBillboardPrimitives: one new scene object for all options of the type.
addTypedPrimitives(st, options) ==
  IF options = <<>> THEN st
  ELSE LET primitive == Fresh(PrimitivesInUse(st))
           added == IF viewer = "live" THEN Reg(st.d, st.c, st.s \cup {primitive}) ELSE st
       IN storePrimitives(added, options, primitive)

addPrimitives(st, primitives) ==
  IF \E i \in DOMAIN primitives : validatePrimitiveUniqueId(st, primitives[i].id)
    THEN Out(st, "throw")
    ELSE LET points == addTypedPrimitives(st, groupPrimitivesByType(primitives, "point"))
             polylines == addTypedPrimitives(points, groupPrimitivesByType(primitives, "polyline"))
             polygons == addTypedPrimitives(polylines, groupPrimitivesByType(primitives, "polygon"))
         IN Out(addTypedPrimitives(polygons, groupPrimitivesByType(primitives, "billboard")), "void")

\* removePrimitiveById without its `if (!info.primitive)` test.
removePrimitive_unchecked(st, id) ==
  LET info == getPrimitiveInfo(st, id)
      swept == IF viewer = "live" THEN Reg(st.d, st.c, st.s \ {info.primitive}) ELSE st
  IN Out(removePrimitiveId(swept, id, info.isDefault), "true")

removePrimitive(st, id) ==
  LET info == getPrimitiveInfo(st, id)
  IN IF info.primitive = Undefined THEN Out(st, "false")
     ELSE LET swept == IF viewer = "live" THEN Reg(st.d, st.c, st.s \ {info.primitive}) ELSE st
          IN Out(removePrimitiveId(swept, id, info.isDefault), "true")

clearPrimitives(st, clearType) ==
  LET targetMap == getTargetMapByType(clearType, st.d, st.c)
      swept == IF viewer = "live" THEN Reg(st.d, st.c, st.s \ MapValues(targetMap)) ELSE st
  IN clearMapsByType(clearType, swept)

SetPrimitives(st) ==
  /\ defaultPrimitiveMap' = st.d
  /\ customPrimitiveMap' = st.c
  /\ scenePrimitives' = st.s

TypesOf(primitives) == {primitives[i].type : i \in DOMAIN primitives}

addPrimitivesBatch(primitives) ==
  /\ kind = "primitive"
  /\ viewer # "destroyed"
  /\ ~(\E i \in DOMAIN primitives : validatePrimitiveUniqueId(Primitives, primitives[i].id))
       => Cardinality(Handles \ PrimitivesInUse(Primitives)) >= Cardinality(TypesOf(primitives))
  /\ SetPrimitives(addPrimitives(Primitives, primitives).st)
  /\ UNCHANGED <<kind, ewkbVars, viewerVars, storeVars, entityVars, layerVars, geoVars>>

removePrimitiveById(id) ==
  /\ kind = "primitive"
  /\ viewer # "destroyed"
  /\ SetPrimitives(removePrimitive(Primitives, id).st)
  /\ UNCHANGED <<kind, ewkbVars, viewerVars, storeVars, entityVars, layerVars, geoVars>>

clearAllPrimitives(clearType) ==
  /\ kind = "primitive"
  /\ viewer # "destroyed"
  /\ SetPrimitives(clearPrimitives(Primitives, clearTypeParameter(clearType)))
  /\ UNCHANGED <<kind, ewkbVars, viewerVars, storeVars, entityVars, layerVars, geoVars>>

\* ------------------------------------------------------------- imagery layers
LayerTypes == {"imagery", "wms", "wmts"}

\* The type of a LayerConfig that #createImageryProvider does not know.
UnsupportedLayerType == "tms"

\* The layers key of a LayerConfig that has none.
NoKey == ""

getLayerInfo(st, key) ==
  [isDefault |-> MapHas(st.d, key),
   layer |-> IF MapHas(st.d, key) THEN st.d[key] ELSE MapGet(st.c, key)]

removeLayerKey(st, key, isDefault) ==
  IF isDefault THEN Reg(MapDelete(st.d, key), st.c, st.s)
  ELSE Reg(st.d, MapDelete(st.c, key), st.s)

storeLayer(st, key, layer, isDefault) ==
  IF isDefault THEN Reg(MapSet(st.d, key, layer), st.c, st.s)
  ELSE Reg(st.d, MapSet(st.c, key, layer), st.s)

\* viewer?.imageryLayers.remove(layer, true): undefined without a viewer,
\* otherwise whether the collection held the layer.
removeLayer(st, key) ==
  LET info == getLayerInfo(st, key)
  IN IF info.layer = Undefined THEN Out(st, "false")
     ELSE IF viewer # "live" THEN Out(st, "undefined")
     ELSE IF info.layer \in st.s
       THEN Out(removeLayerKey(Reg(st.d, st.c, st.s \ {info.layer}), key, info.isDefault), "true")
       ELSE Out(st, "false")

validateUniqueLayerKey(st, key) ==
  IF MapHas(st.d, key) \/ MapHas(st.c, key) THEN removeLayer(st, key).st ELSE st

createImageryProvider(type) == IF type \in LayerTypes THEN "provider" ELSE "null"

LayersInUse(st) == st.s \cup MapValues(st.d) \cup MapValues(st.c)

\* The new ImageryLayer is an object distinct from every layer that existed
\* when the call was made, the replaced one included.
addLayer(st, key, isDefault, type) ==
  IF key = NoKey THEN Out(st, "throw")
  ELSE LET valid == validateUniqueLayerKey(st, key)
       IN IF createImageryProvider(type) = "null" THEN Out(valid, "null")
          ELSE IF viewer = "live"
            THEN LET layer == Fresh(LayersInUse(st))
                 IN Out(storeLayer(Reg(valid.d, valid.c, valid.s \cup {layer}), key, layer, isDefault),
                        "layer")
            ELSE Out(storeLayer(valid, key, Undefined, isDefault), "undefined")

RECURSIVE batchRemoveLayerKeys(_, _)
batchRemoveLayerKeys(st, layerIds) ==
  IF layerIds = <<>> THEN st
  ELSE batchRemoveLayerKeys(removeLayer(st, Head(layerIds)).st, Tail(layerIds))

\* imageryLayers.remove(undefined, true) finds no such layer and returns false.
clearLayers(st, clearType) ==
  LET targetMap == getTargetMapByType(clearType, st.d, st.c)
      swept == IF viewer = "live" THEN Reg(st.d, st.c, st.s \ MapValues(targetMap)) ELSE st
  IN clearMapsByType(clearType, swept)

SetLayers(st) ==
  /\ defaultLayerMap' = st.d
  /\ customLayerMap' = st.c
  /\ sceneLayers' = st.s

createLayer(key, isDefault, type) ==
  /\ kind = "layer"
  /\ viewer # "destroyed"
  /\ (key # NoKey /\ type \in LayerTypes /\ viewer = "live") => Handles \ LayersInUse(Layers) # {}
  /\ SetLayers(addLayer(Layers, key, isDefault, type).st)
  /\ UNCHANGED <<kind, ewkbVars, viewerVars, storeVars, entityVars, primitiveVars, geoVars>>

removeLayerByKey(key) ==
  /\ kind = "layer"
  /\ viewer # "destroyed"
  /\ SetLayers(removeLayer(Layers, key).st)
  /\ UNCHANGED <<kind, ewkbVars, viewerVars, storeVars, entityVars, primitiveVars, geoVars>>

batchRemoveLayers(layerIds) ==
  /\ kind = "layer"
  /\ viewer # "destroyed"
  /\ SetLayers(batchRemoveLayerKeys(Layers, layerIds))
  /\ UNCHANGED <<kind, ewkbVars, viewerVars, storeVars, entityVars, primitiveVars, geoVars>>

clearAllLayers(clearType) ==
  /\ kind = "layer"
  /\ viewer # "destroyed"
  /\ SetLayers(clearLayers(Layers, clearTypeParameter(clearType)))
  /\ UNCHANGED <<kind, ewkbVars, viewerVars, storeVars, entityVars, primitiveVars, geoVars>>

\* ------------------------------------------------------------- GeoJSON layers
geoJsonExists(st, layerId) == MapHas(st.d, layerId) \/ MapHas(st.c, layerId)

storeGeoJson(st, layerId, dataSource, isDefault) ==
  IF isDefault THEN Reg(MapSet(st.d, layerId, dataSource), st.c, st.s)
  ELSE Reg(st.d, MapSet(st.c, layerId, dataSource), st.s)

getGeoJsonInfo(st, layerId) ==
  [isDefault |-> MapHas(st.d, layerId),
   dataSource |-> IF MapHas(st.d, layerId) THEN st.d[layerId] ELSE MapGet(st.c, layerId)]

removeGeoJsonLayerId(st, layerId, isDefault) ==
  IF isDefault THEN Reg(MapDelete(st.d, layerId), st.c, st.s)
  ELSE Reg(st.d, MapDelete(st.c, layerId), st.s)

\* viewer?.dataSources.remove(dataSource, true): undefined without a viewer,
\* otherwise whether the collection held the data source.
removeGeoJson(st, layerId) ==
  LET info == getGeoJsonInfo(st, layerId)
  IN IF info.dataSource = Undefined THEN Out(st, "false")
     ELSE IF viewer # "live" THEN Out(st, "undefined")
     ELSE IF info.dataSource \in st.s
       THEN Out(removeGeoJsonLayerId(Reg(st.d, st.c, st.s \ {info.dataSource}), layerId, info.isDefault),
                "true")
       ELSE Out(st, "false")

RECURSIVE batchRemoveGeoJsons(_, _)
batchRemoveGeoJsons(st, layerIds) ==
  IF layerIds = <<>> THEN st
  ELSE batchRemoveGeoJsons(removeGeoJson(st, Head(layerIds)).st, Tail(layerIds))

clearGeoJsons(st, clearType) ==
  LET targetMap == getTargetMapByType(clearType, st.d, st.c)
      swept == IF viewer = "live" THEN Reg(st.d, st.c, st.s \ MapValues(targetMap)) ELSE st
  IN clearMapsByType(clearType, swept)

\* The show of the registered data sources: true on one newly stored, as
\* GeoJsonDataSource.load and new LabelGraphics make it.
Shown(st, shows) ==
  [dataSource \in MapValues(st.d) \cup MapValues(st.c) |->
     IF MapHas(shows, dataSource) THEN shows[dataSource] ELSE TRUE]

SetGeoJsons(st) ==
  /\ defaultGeoJsonMap' = st.d
  /\ customGeoJsonMap' = st.c
  /\ sceneDataSources' = st.s
  /\ dataSourceShow' = Shown(st, dataSourceShow)
  /\ labelShow' = Shown(st, labelShow)

Suspended == BagToSet(requests)

\* The suspended calls there can be: at the load, or at dataSources.add with
\* the data source the load gave.
Requests ==
  [pc : {"loading"}, layerId : Ids, isDefault : BOOLEAN, dataSource : {Undefined}]
    \cup [pc : {"adding"}, layerId : Ids, isDefault : BOOLEAN, dataSource : Handles]

DataSourcesInUse ==
  sceneDataSources \cup MapValues(defaultGeoJsonMap) \cup MapValues(customGeoJsonMap)
    \cup {r.dataSource : r \in Suspended}

Request(pc, layerId, isDefault, dataSource) ==
  [pc |-> pc, layerId |-> layerId, isDefault |-> isDefault, dataSource |-> dataSource]

\* The call itself, up to `await GeoJsonDataSource.load(...)`: it throws (the
\* promise it returns is rejected) or is suspended at the load.
addGeoJsonLayerCall(st, reqs, layerId, isDefault) ==
  IF geoJsonExists(st, layerId) THEN [requests |-> reqs, ret |-> "throw"]
  ELSE [requests |-> reqs (+) SetToBag({Request("loading", layerId, isDefault, Undefined)}),
        ret |-> "pending"]

addGeoJsonLayer(layerId, isDefault) ==
  /\ kind = "geojson"
  /\ viewer # "destroyed"
  /\ ~geoJsonExists(GeoJsons, layerId) => BagCardinality(requests) < MaxRequests
  /\ requests' = addGeoJsonLayerCall(GeoJsons, requests, layerId, isDefault).requests
  /\ UNCHANGED <<kind, ewkbVars, viewerVars, storeVars, entityVars, primitiveVars, layerVars,
                 defaultGeoJsonMap, customGeoJsonMap, sceneDataSources, showVars>>

\* The load resolves: the call goes on to `await this.#viewer?.dataSources.add(dataSource)`.
loadResolved(r) ==
  /\ kind = "geojson"
  /\ viewer # "destroyed"
  /\ r \in Suspended
  /\ r.pc = "loading"
  /\ Handles \ DataSourcesInUse # {}
  /\ LET dataSource == Fresh(DataSourcesInUse)
     IN /\ requests' = (requests (-) SetToBag({r}))
                         (+) SetToBag({Request("adding", r.layerId, r.isDefault, dataSource)})
        /\ sceneDataSources' = IF viewer = "live" THEN sceneDataSources \cup {dataSource}
                               ELSE sceneDataSources
  /\ UNCHANGED <<kind, ewkbVars, viewerVars, storeVars, entityVars, primitiveVars, layerVars,
                 defaultGeoJsonMap, customGeoJsonMap, showVars>>

\* The load rejects: so does the call, with nothing stored.
loadRejected(r) ==
  /\ kind = "geojson"
  /\ viewer # "destroyed"
  /\ r \in Suspended
  /\ r.pc = "loading"
  /\ requests' = requests (-) SetToBag({r})
  /\ UNCHANGED <<kind, ewkbVars, viewerVars, storeVars, entityVars, primitiveVars, layerVars,
                 defaultGeoJsonMap, customGeoJsonMap, sceneDataSources, showVars>>

\* The call resumes after dataSources.add: #storeGeoJson, return dataSource.
addGeoJsonLayerResumed(r) ==
  /\ kind = "geojson"
  /\ viewer # "destroyed"
  /\ r \in Suspended
  /\ r.pc = "adding"
  /\ SetGeoJsons(storeGeoJson(GeoJsons, r.layerId, r.dataSource, r.isDefault))
  /\ requests' = requests (-) SetToBag({r})
  /\ UNCHANGED <<kind, ewkbVars, viewerVars, storeVars, entityVars, primitiveVars, layerVars>>

removeGeoJsonLayer(layerId) ==
  /\ kind = "geojson"
  /\ viewer # "destroyed"
  /\ SetGeoJsons(removeGeoJson(GeoJsons, layerId).st)
  /\ UNCHANGED <<kind, ewkbVars, viewerVars, storeVars, entityVars, primitiveVars, layerVars, requests>>

batchRemoveGeoJsonLayers(layerIds) ==
  /\ kind = "geojson"
  /\ viewer # "destroyed"
  /\ SetGeoJsons(batchRemoveGeoJsons(GeoJsons, layerIds))
  /\ UNCHANGED <<kind, ewkbVars, viewerVars, storeVars, entityVars, primitiveVars, layerVars, requests>>

clearAllGeoJsonLayers(clearType) ==
  /\ kind = "geojson"
  /\ viewer # "destroyed"
  /\ SetGeoJsons(clearGeoJsons(GeoJsons, clearTypeParameter(clearType)))
  /\ UNCHANGED <<kind, ewkbVars, viewerVars, storeVars, entityVars, primitiveVars, layerVars, requests>>

\* ------------------------------------------------------------- lookups
getCesiumEntityById(st, entityId) ==
  IF ~entityExists(st, entityId) THEN "null"
  ELSE IF viewer = "live" /\ entityId \in st.s THEN "entity" ELSE "null"

\* a || b on handles: b where a is undefined.
getPrimitiveById(st, id) ==
  IF MapGet(st.d, id) # Undefined THEN MapGet(st.d, id) ELSE MapGet(st.c, id)

getLayerByKey(st, key) ==
  IF MapGet(st.d, key) # Undefined THEN MapGet(st.d, key) ELSE MapGet(st.c, key)

getGeoJsonLayerById(st, layerId) ==
  IF MapGet(st.d, layerId) # Undefined THEN MapGet(st.d, layerId) ELSE MapGet(st.c, layerId)

\* ------------------------------------------------------------- GeoJSON visibility
\* Every data source followed has entities and was loaded with labelEnabled:
\* dataSourceShow is its show, labelShow the show of the labels of its entities.
getGeoJsonLayerVisibility(st, shows, layerId) ==
  LET dataSource == getGeoJsonLayerById(st, layerId)
  IN IF dataSource = Undefined THEN "null"
     ELSE IF shows[dataSource] THEN "true" ELSE "false"

showGeoJson(st, shows, labels, layerId) ==
  LET dataSource == getGeoJsonLayerById(st, layerId)
  IN IF dataSource = Undefined THEN [show |-> shows, label |-> labels, ret |-> "false"]
     ELSE [show |-> MapSet(shows, dataSource, TRUE),
           label |-> MapSet(labels, dataSource, TRUE),
           ret |-> "true"]

\* entity.label.show = new ConstantProperty(true), in hideGeoJsonLayer too.
hideGeoJson(st, shows, labels, layerId) ==
  LET dataSource == getGeoJsonLayerById(st, layerId)
  IN IF dataSource = Undefined THEN [show |-> shows, label |-> labels, ret |-> "false"]
     ELSE [show |-> MapSet(shows, dataSource, FALSE),
           label |-> MapSet(labels, dataSource, TRUE),
           ret |-> "true"]

toggleGeoJson(st, shows, labels, layerId) ==
  LET dataSource == getGeoJsonLayerById(st, layerId)
  IN IF dataSource = Undefined THEN [show |-> shows, label |-> labels, ret |-> "null"]
     ELSE LET newState == ~shows[dataSource]
          IN [show |-> MapSet(shows, dataSource, newState),
              label |-> MapSet(labels, dataSource, newState),
              ret |-> IF newState THEN "true" ELSE "false"]

SetShown(call) ==
  /\ dataSourceShow' = call.show
  /\ labelShow' = call.label

showGeoJsonLayer(layerId) ==
  /\ kind = "geojson"
  /\ viewer # "destroyed"
  /\ SetShown(showGeoJson(GeoJsons, dataSourceShow, labelShow, layerId))
  /\ UNCHANGED <<kind, ewkbVars, viewerVars, storeVars, entityVars, primitiveVars, layerVars,
                 defaultGeoJsonMap, customGeoJsonMap, sceneDataSources, requests>>

hideGeoJsonLayer(layerId) ==
  /\ kind = "geojson"
  /\ viewer # "destroyed"
  /\ SetShown(hideGeoJson(GeoJsons, dataSourceShow, labelShow, layerId))
  /\ UNCHANGED <<kind, ewkbVars, viewerVars, storeVars, entityVars, primitiveVars, layerVars,
                 defaultGeoJsonMap, customGeoJsonMap, sceneDataSources, requests>>

toggleGeoJsonLayer(layerId) ==
  /\ kind = "geojson"
  /\ viewer # "destroyed"
  /\ SetShown(toggleGeoJson(GeoJsons, dataSourceShow, labelShow, layerId))
  /\ UNCHANGED <<kind, ewkbVars, viewerVars, storeVars, entityVars, primitiveVars, layerVars,
                 defaultGeoJsonMap, customGeoJsonMap, sceneDataSources, requests>>

\* ------------------------------------------------------------- EWKB decoder
\* A text is a sequence of one-character strings.  The texts followed are made
\* of hexadecimal digits, the letter "g" and the space.
HexDigits == <<"0", "1", "2", "3", "4", "5", "6", "7", "8", "9", "a", "b", "c", "d", "e", "f">>

IsHexDigit(c) == \E i \in 1..16 : HexDigits[i] = c

HexValue(c) == (CHOOSE i \in 1..16 : HexDigits[i] = c) - 1

\* The NaN of parseInt, which returns no negative number on these texts.
NaN == -1

RECURSIVE trimStart(_)
trimStart(s) == IF s # <<>> /\ Head(s) = " " THEN trimStart(Tail(s)) ELSE s

RECURSIVE trimEnd(_)
trimEnd(s) == IF s # <<>> /\ s[Len(s)] = " " THEN trimEnd(SubSeq(s, 1, Len(s) - 1)) ELSE s

\* String.prototype.trim
trim(s) == trimEnd(trimStart(s))

\* String.prototype.substr(start, length), start counted from 0.
substr(s, start, length) ==
  SubSeq(s, start + 1, IF start + length <= Len(s) THEN start + length ELSE Len(s))

\* parseInt(s, 16) of a text of one or two characters: leading white space is
\* skipped, then the digits up to the first character that is none are read;
\* NaN when there is no digit.
parseInt16(s) ==
  LET t == trimStart(s)
  IN IF t = <<>> \/ ~IsHexDigit(t[1]) THEN NaN
     ELSE IF Len(t) >= 2 /\ IsHexDigit(t[2]) THEN 16 * HexValue(t[1]) + HexValue(t[2])
     ELSE HexValue(t[1])

\* The conversion of new Uint8Array(bytes): NaN becomes 0.
Uint8(n) == IF n = NaN THEN 0 ELSE n % 256

\* The loop of #parseEWKB: one byte for every two characters, and one for a
\* last single character.
HexToBytes(hexString) ==
  [k \in 1..((Len(hexString) + 1) \div 2) |-> Uint8(parseInt16(substr(hexString, 2 * (k - 1), 2)))]

\* A DataView read of n bytes at byteOffset throws a RangeError unless the
\* buffer holds them all.
InBounds(bytes, byteOffset, n) == byteOffset + n <= Len(bytes)

getUint8(bytes, byteOffset) == bytes[byteOffset + 1]

\* An unsigned 32-bit value is kept as its two 16-bit words.
Uint32(b3, b2, b1, b0) == [hi |-> b3 * 256 + b2, lo |-> b1 * 256 + b0]

\* DataView.getUint32 read in big-endian order whatever littleEndian says.
getUint32_bigEndian(bytes, byteOffset, littleEndian) ==
  Uint32(bytes[byteOffset + 1], bytes[byteOffset + 2], bytes[byteOffset + 3], bytes[byteOffset + 4])

getUint32(bytes, byteOffset, littleEndian) ==
  IF littleEndian
    THEN Uint32(bytes[byteOffset + 4], bytes[byteOffset + 3], bytes[byteOffset + 2], bytes[byteOffset + 1])
    ELSE Uint32(bytes[byteOffset + 1], bytes[byteOffset + 2], bytes[byteOffset + 3], bytes[byteOffset + 4])

\* DataView.getFloat64 read in big-endian order whatever littleEndian says.
getFloat64_bigEndian(bytes, byteOffset, littleEndian) ==
  [i \in 1..8 |-> bytes[byteOffset + i]]

\* A float64 is kept as its IEEE 754 bit pattern, the byte of the sign first.
getFloat64(bytes, byteOffset, littleEndian) ==
  [i \in 1..8 |-> IF littleEndian THEN bytes[byteOffset + 9 - i] ELSE bytes[byteOffset + i]]

\* (type & 0x20000000) !== 0
hasSRIDFlag(type) == (type.hi \div 8192) % 2 = 1

\* let srid = 4326
DefaultSrid == [hi |-> 0, lo |-> 4326]

Returned(longitude, latitude, srid) ==
  [error |-> "none", longitude |-> longitude, latitude |-> latitude, srid |-> srid]

\* A failed read that hands back an empty result where it throws.
Thrown_asResult(error) == Returned(<<>>, <<>>, DefaultSrid)

Thrown(error) ==
  [error |-> error, longitude |-> <<>>, latitude |-> <<>>, srid |-> DefaultSrid]

\* parsed before addEWkbLayer has called #parseEWKB
NotCalled == [error |-> "notCalled", longitude |-> <<>>, latitude |-> <<>>, srid |-> DefaultSrid]

parseEWKB(ewkb) ==
  LET hexString == trim(ewkb)
      bytes == HexToBytes(hexString)
  IN IF ~InBounds(bytes, 0, 1) THEN Thrown("RangeError")
     ELSE LET byteOrder == getUint8(bytes, 0)
              isLittleEndian == byteOrder = 1
          IN IF ~InBounds(bytes, 1, 4) THEN Thrown("RangeError")
             ELSE LET type == getUint32(bytes, 1, isLittleEndian)
                      hasSRID == hasSRIDFlag(type)
                  IN IF hasSRID /\ ~InBounds(bytes, 5, 4) THEN Thrown("RangeError")
                     ELSE LET srid == IF hasSRID THEN getUint32(bytes, 5, isLittleEndian)
                                      ELSE DefaultSrid
                              offset == IF hasSRID THEN 9 ELSE 5
                          IN IF ~InBounds(bytes, offset, 8) THEN Thrown("RangeError")
                             ELSE IF ~InBounds(bytes, offset + 8, 8) THEN Thrown("RangeError")
                             ELSE Returned(getFloat64(bytes, offset, isLittleEndian),
                                           getFloat64(bytes, offset + 8, isLittleEndian),
                                           srid)

\* st is the state of the entities after the call, parsed what #parseEWKB gave
\* where it was called.
addEWkb(st, was, ewkb, id, isDefault, opt) ==
  IF opt = "noPosition" THEN [st |-> st, ret |-> "throw", parsed |-> was]
  ELSE LET r == parseEWKB(ewkb)
       IN IF r.error # "none" THEN [st |-> st, ret |-> "throw", parsed |-> r]
          ELSE LET added == addEntity(st, id, isDefault, opt)
               IN [st |-> added.st, ret |-> added.ret, parsed |-> r]

addEWkbLayer(id, isDefault, opt) ==
  /\ kind = "ewkb"
  /\ viewer # "destroyed"
  /\ LET call == addEWkb(Entities, parsed, ewkbHex, id, isDefault, opt)
     IN SetEntities(call.st) /\ parsed' = call.parsed
  /\ UNCHANGED <<kind, ewkbHex, viewerVars, storeVars, primitiveVars, layerVars, geoVars>>

\* The texts handed to addEWkbLayer: the hexadecimal text of the first bytes of
\* an order byte, a type code and a payload of pairwise distinct bytes, as it
\* is or damaged.
OrderBytes == {0, 1, 2}

TypeCodes == {<<1, 0, 0, 0>>, <<1, 0, 0, 32>>, <<32, 0, 0, 1>>, <<223, 255, 255, 223>>}

PayloadByte(i) == (37 * i + 101) % 256

WireBytes(order, typeCode, n) ==
  SubSeq(<<order>> \o typeCode \o [i \in 1..MaxBytes |-> PayloadByte(i)], 1, n)

ToHex(bytes) ==
  [k \in 1..(2 * Len(bytes)) |->
     IF k % 2 = 1 THEN HexDigits[(bytes[(k + 1) \div 2] \div 16) + 1]
     ELSE HexDigits[(bytes[k \div 2] % 16) + 1]]

Damages == {"none", "dropLast", "nonHexFirst", "nonHexLast", "padded"}

Damaged(hex, damage) ==
  CASE damage = "none" -> hex
    [] damage = "dropLast" -> SubSeq(hex, 1, Len(hex) - 1)
    [] damage = "nonHexFirst" -> [k \in DOMAIN hex |-> IF k = 1 THEN "g" ELSE hex[k]]
    [] damage = "nonHexLast" -> [k \in DOMAIN hex |-> IF k = Len(hex) THEN "g" ELSE hex[k]]
    [] damage = "padded" -> <<" ">> \o hex \o <<" ">>

EwkbTexts ==
  {Damaged(ToHex(WireBytes(order, typeCode, n)), damage) :
     order \in OrderBytes, typeCode \in TypeCodes, n \in 0..MaxBytes, damage \in Damages}

\* ------------------------------------------------------------- viewer
\* new Viewer(...) assigned to #viewer: the scene collections of the new
\* viewer hold none of the registered objects; the partitions are left as
\* they are and nothing is done to the Viewer #viewer referred to before.
initCesiumViewer ==
  /\ viewer' = "live"
  /\ destroyCalls' = 0
  /\ replacedLive' = (replacedLive \/ viewer = "live")
  /\ sceneEntities' = {}
  /\ scenePrimitives' = {}
  /\ sceneLayers' = {}
  /\ sceneDataSources' = {}
  /\ UNCHANGED <<kind, ewkbVars, storeVars, defaultEntityIds, customEntityIds, defaultPrimitiveMap,
                 customPrimitiveMap, defaultLayerMap, customLayerMap,
                 defaultGeoJsonMap, customGeoJsonMap, requests, showVars>>

\* clearAllEntities, clearAllPrimitives, clearAllLayers, clearAllGeoJsonLayers,
\* in this order, each on its own partitions and scene collection.
SetCleared(clearType) ==
  /\ SetEntities(clearEntities(Entities, clearTypeParameter(clearType)))
  /\ SetPrimitives(clearPrimitives(Primitives, clearTypeParameter(clearType)))
  /\ SetLayers(clearLayers(Layers, clearTypeParameter(clearType)))
  /\ SetGeoJsons(clearGeoJsons(GeoJsons, clearTypeParameter(clearType)))

clearAllResources(clearType) ==
  /\ viewer # "destroyed"
  /\ SetCleared(clearType)
  /\ UNCHANGED <<kind, ewkbVars, viewerVars, storeVars, requests>>

\* if (this.#viewer) { clearAllResources('all'); this.#viewer.destroy() }:
\* #viewer keeps referring to the Viewer, so a later call destroys it again.
destroyCesiumViewer ==
  /\ viewer # "null"
  /\ destroyCalls < MaxDestroyCalls
  /\ SetCleared("all")
  /\ viewer' = "destroyed"
  /\ destroyCalls' = destroyCalls + 1
  /\ UNCHANGED <<kind, ewkbVars, replacedLive, storeVars, requests>>

\* ------------------------------------------------------------- store
\* What the callers hand to setViewer: null or a Viewer that is not destroyed.
ViewerInputs == {NoViewer} \cup {v \in ViewerInstances : viewerDestroyCalls[v] = 0}

\* viewer.value.destroy() if the store holds an instance, whichever instance
\* comes in; then viewer.value = viewerInstance.
setViewer(viewerInstance) ==
  /\ kind = "store"
  /\ viewerInstance \in ViewerInputs
  /\ storeViewer # NoViewer => viewerDestroyCalls[storeViewer] < MaxDestroyCalls
  /\ viewerDestroyCalls' =
       IF storeViewer # NoViewer
         THEN [viewerDestroyCalls EXCEPT ![storeViewer] = @ + 1]
         ELSE viewerDestroyCalls
  /\ storeViewer' = viewerInstance
  /\ UNCHANGED <<kind, ewkbVars, viewerVars, entityVars, primitiveVars, layerVars, geoVars>>

\* ------------------------------------------------------------- specification
Init ==
  /\ kind \in Kinds
  /\ viewer = "null"
  /\ destroyCalls = 0
  /\ replacedLive = FALSE
  /\ storeViewer = NoViewer
  /\ viewerDestroyCalls = [v \in ViewerInstances |-> 0]
  /\ defaultEntityIds = {} /\ customEntityIds = {} /\ sceneEntities = {}
  /\ defaultPrimitiveMap = EmptyMap /\ customPrimitiveMap = EmptyMap /\ scenePrimitives = {}
  /\ defaultLayerMap = EmptyMap /\ customLayerMap = EmptyMap /\ sceneLayers = {}
  /\ defaultGeoJsonMap = EmptyMap /\ customGeoJsonMap = EmptyMap /\ sceneDataSources = {}
  /\ requests = EmptyBag
  /\ ewkbHex = <<>>
  /\ parsed = NotCalled
  /\ dataSourceShow = EmptyMap /\ labelShow = EmptyMap

\* A registry call made while #viewer refers to a destroyed Viewer is not
\* followed (the guard viewer # "destroyed" of the registry actions): what the
\* destroyed Viewer does with the call is Cesium's.
Next ==
  \/ initCesiumViewer
  \/ destroyCesiumViewer
  \/ \E viewerInstance \in {NoViewer} \cup ViewerInstances : setViewer(viewerInstance)
  \/ \E clearType \in ClearArguments : clearAllResources(clearType)
  \/ \E clearType \in ClearArguments : clearAllEntities(clearType)
  \/ \E clearType \in ClearArguments : clearAllPrimitives(clearType)
  \/ \E clearType \in ClearArguments : clearAllLayers(clearType)
  \/ \E clearType \in ClearArguments : clearAllGeoJsonLayers(clearType)
  \/ \E id \in Ids, isDefault \in BOOLEAN, opt \in EntityOptions : addCesiumEntity(id, isDefault, opt)
  \/ \E id \in Ids : removeCesiumEntity(id)
  \/ \E entityIds \in IdLists : batchRemoveCesiumEntities(entityIds)
  \/ \E primitives \in PrimitiveLists : addPrimitivesBatch(primitives)
  \/ \E id \in Ids : removePrimitiveById(id)
  \/ \E key \in Ids \cup {NoKey}, isDefault \in BOOLEAN, type \in LayerTypes \cup {UnsupportedLayerType} :
       createLayer(key, isDefault, type)
  \/ \E key \in Ids : removeLayerByKey(key)
  \/ \E layerIds \in IdLists : batchRemoveLayers(layerIds)
  \/ \E layerId \in Ids, isDefault \in BOOLEAN : addGeoJsonLayer(layerId, isDefault)
  \/ \E r \in Requests : loadResolved(r)
  \/ \E r \in Requests : loadRejected(r)
  \/ \E r \in Requests : addGeoJsonLayerResumed(r)
  \/ \E layerId \in Ids : removeGeoJsonLayer(layerId)
  \/ \E layerIds \in IdLists : batchRemoveGeoJsonLayers(layerIds)

Spec == Init /\ [][Next]_vars

\* The decoder: addEWkbLayer calls, all with one text, on a registry whose
\* viewer is or is not initialised.
InitEWKB ==
  /\ kind = "ewkb"
  /\ viewer = "null"
  /\ destroyCalls = 0
  /\ replacedLive = FALSE
  /\ storeViewer = NoViewer
  /\ viewerDestroyCalls = [v \in ViewerInstances |-> 0]
  /\ defaultEntityIds = {} /\ customEntityIds = {} /\ sceneEntities = {}
  /\ defaultPrimitiveMap = EmptyMap /\ customPrimitiveMap = EmptyMap /\ scenePrimitives = {}
  /\ defaultLayerMap = EmptyMap /\ customLayerMap = EmptyMap /\ sceneLayers = {}
  /\ defaultGeoJsonMap = EmptyMap /\ customGeoJsonMap = EmptyMap /\ sceneDataSources = {}
  /\ requests = EmptyBag
  /\ ewkbHex \in EwkbTexts
  /\ parsed = NotCalled
  /\ dataSourceShow = EmptyMap /\ labelShow = EmptyMap

NextEWKB ==
  \/ initCesiumViewer
  \/ \E id \in Ids, isDefault \in BOOLEAN, opt \in {"valid", "noPosition"} :
       addEWkbLayer(id, isDefault, opt)

SpecEWKB == InitEWKB /\ [][NextEWKB]_vars

\* The visibility of GeoJSON layers: layers are added and removed, shown,
\* hidden and toggled.
InitShow == Init /\ kind = "geojson"

NextShow ==
  \/ initCesiumViewer
  \/ \E layerId \in Ids, isDefault \in BOOLEAN : addGeoJsonLayer(layerId, isDefault)
  \/ \E r \in Requests : loadResolved(r)
  \/ \E r \in Requests : addGeoJsonLayerResumed(r)
  \/ \E layerId \in Ids : removeGeoJsonLayer(layerId)
  \/ \E layerId \in Ids : showGeoJsonLayer(layerId)
  \/ \E layerId \in Ids : hideGeoJsonLayer(layerId)
  \/ \E layerId \in Ids : toggleGeoJsonLayer(layerId)

SpecShow == InitShow /\ [][NextShow]_vars

\* ------------------------------------------------------------- claims
\* C1: entity id uniqueness.  In every state reached by addCesiumEntity,
\* removeCesiumEntity, batchRemoveCesiumEntities and clearAllEntities, with
\* any provenance and any clear scope, no id is in both the default and the
\* custom entity set.
C1_EntityIdUnique == defaultEntityIds \cap customEntityIds = {}

\* Both partitions are populated, with the entities in the scene.
C1_Witness ==
  /\ viewer = "live"
  /\ defaultEntityIds # {}
  /\ customEntityIds # {}
  /\ defaultEntityIds \cup customEntityIds = sceneEntities

\* C4: hard duplicate failure.  An addCesiumEntity, addPrimitivesBatch or
\* addGeoJsonLayer call naming an id that is registered for its kind, in
\* either partition and with either provenance, throws and leaves both
\* partitions of the kind, the scene collection and the suspended calls as
\* they were.
C4_HardDuplicateFailure ==
  /\ \A id \in Ids, isDefault \in BOOLEAN, opt \in EntityOptions :
       (id \in defaultEntityIds \cup customEntityIds)
         => addEntity(Entities, id, isDefault, opt) = Out(Entities, "throw")
  /\ (DOMAIN defaultPrimitiveMap) \cup (DOMAIN customPrimitiveMap) # {}
       => \A primitives \in PrimitiveLists :
            (\E i \in DOMAIN primitives :
               primitives[i].id \in (DOMAIN defaultPrimitiveMap) \cup (DOMAIN customPrimitiveMap))
              => addPrimitives(Primitives, primitives) = Out(Primitives, "throw")
  /\ \A layerId \in Ids, isDefault \in BOOLEAN :
       (layerId \in (DOMAIN defaultGeoJsonMap) \cup (DOMAIN customGeoJsonMap))
         => addGeoJsonLayerCall(GeoJsons, requests, layerId, isDefault)
              = [requests |-> requests, ret |-> "throw"]

\* One primitive id is registered as default and the other as custom, so a
\* list naming either, with either flag, is a duplicate add.
C4_Witness ==
  /\ viewer = "live"
  /\ DOMAIN defaultPrimitiveMap = {"a"}
  /\ DOMAIN customPrimitiveMap = {"b"}
  /\ MapValues(defaultPrimitiveMap) \cup MapValues(customPrimitiveMap) \subseteq scenePrimitives
\* C2: primitive id uniqueness.  After an addPrimitivesBatch call that
\* returns without error, whatever ids, types and default flags its list
\* repeats, no id is a key of both primitive maps, and every primitive the
\* call added to the scene is the value of some registry entry.
C2_PrimitiveIdUnique ==
  [][\A primitives \in PrimitiveLists :
       (addPrimitivesBatch(primitives) /\ addPrimitives(Primitives, primitives).ret = "void")
         => /\ (DOMAIN defaultPrimitiveMap') \cap (DOMAIN customPrimitiveMap') = {}
            /\ (scenePrimitives' \ scenePrimitives)
                 \subseteq MapValues(defaultPrimitiveMap') \cup MapValues(customPrimitiveMap')]_vars

\* C3: geo-overlay id uniqueness under interleaving.  With addGeoJsonLayer
\* calls for one layerId suspended together, no layerId becomes a key of both
\* GeoJSON maps, and every data source in the scene is the value of a registry
\* entry or belongs to a call that has not yet stored it.
C3_GeoJsonIdUnique ==
  /\ (DOMAIN defaultGeoJsonMap) \cap (DOMAIN customGeoJsonMap) = {}
  /\ sceneDataSources \subseteq MapValues(defaultGeoJsonMap) \cup MapValues(customGeoJsonMap)
                                  \cup {r.dataSource : r \in Suspended}

\* C5: imagery-layer implicit replace.  createLayer of a supported type with
\* a key that is registered, in either partition, returns the new layer; the
\* layer stored before leaves the scene; the key then maps to the new layer in
\* the partition of the call's provenance and is absent from the other one.
C5_LayerReplace ==
  [][\A key \in Ids, isDefault \in BOOLEAN, type \in LayerTypes :
       (createLayer(key, isDefault, type)
          /\ key \in (DOMAIN defaultLayerMap) \cup (DOMAIN customLayerMap))
         => LET old == getLayerInfo(Layers, key).layer
                mine == IF isDefault THEN defaultLayerMap' ELSE customLayerMap'
                other == IF isDefault THEN customLayerMap' ELSE defaultLayerMap'
            IN /\ addLayer(Layers, key, isDefault, type).ret = "layer"
               /\ old \in sceneLayers /\ old \notin sceneLayers'
               /\ key \in DOMAIN mine
               /\ mine[key] \in sceneLayers' \ {old}
               /\ key \notin DOMAIN other]_vars

\* C6: imagery-layer key uniqueness.  In every state reached by createLayer,
\* removeLayerByKey, batchRemoveLayers and clearAllLayers, with or without a
\* viewer and whatever the scene's removal reports, no key is in both layer
\* maps.
C6_LayerKeyUnique == (DOMAIN defaultLayerMap) \cap (DOMAIN customLayerMap) = {}

\* C7: live handles.  While a viewer is active every entry of every partition
\* refers to an object that is in the scene.
C7_LiveHandles ==
  viewer = "live" =>
    /\ defaultEntityIds \cup customEntityIds \subseteq sceneEntities
    /\ MapValues(defaultPrimitiveMap) \cup MapValues(customPrimitiveMap) \subseteq scenePrimitives
    /\ MapValues(defaultLayerMap) \cup MapValues(customLayerMap) \subseteq sceneLayers
    /\ MapValues(defaultGeoJsonMap) \cup MapValues(customGeoJsonMap) \subseteq sceneDataSources

\* What a scoped clear of one partition must do to a map kind: `cleared` is
\* empty afterwards, `kept` is as before and every scene object `kept`
\* referred to is still in the scene.
ScopedMapClear(cleared, kept, keptBefore, sceneBefore, sceneAfter) ==
  /\ DOMAIN cleared = {}
  /\ kept = keptBefore
  /\ MapValues(keptBefore) \cap sceneBefore \subseteq sceneAfter

\* C8: scoped clear isolation.  For every kind clear('default') empties the
\* default partition and leaves every custom entry and its scene object as it
\* was, and clear('custom') does so with the roles swapped.
C8_ScopedClear ==
  [][/\ clearAllEntities("default")
          => /\ defaultEntityIds' = {} /\ customEntityIds' = customEntityIds
             /\ customEntityIds \cap sceneEntities \subseteq sceneEntities'
     /\ clearAllEntities("custom")
          => /\ customEntityIds' = {} /\ defaultEntityIds' = defaultEntityIds
             /\ defaultEntityIds \cap sceneEntities \subseteq sceneEntities'
     /\ clearAllPrimitives("default")
          => ScopedMapClear(defaultPrimitiveMap', customPrimitiveMap', customPrimitiveMap,
                            scenePrimitives, scenePrimitives')
     /\ clearAllPrimitives("custom")
          => ScopedMapClear(customPrimitiveMap', defaultPrimitiveMap', defaultPrimitiveMap,
                            scenePrimitives, scenePrimitives')
     /\ clearAllLayers("default")
          => ScopedMapClear(defaultLayerMap', customLayerMap', customLayerMap,
                            sceneLayers, sceneLayers')
     /\ clearAllLayers("custom")
          => ScopedMapClear(customLayerMap', defaultLayerMap', defaultLayerMap,
                            sceneLayers, sceneLayers')
     /\ clearAllGeoJsonLayers("default")
          => ScopedMapClear(defaultGeoJsonMap', customGeoJsonMap', customGeoJsonMap,
                            sceneDataSources, sceneDataSources')
     /\ clearAllGeoJsonLayers("custom")
          => ScopedMapClear(customGeoJsonMap', defaultGeoJsonMap', defaultGeoJsonMap,
                            sceneDataSources, sceneDataSources')]_vars

\* What a remove that checks the scene's answer returns and leaves behind:
\* with the object taken out of the scene, true and the entry dropped from
\* the partition that held it; otherwise false and the registry and the scene
\* as they were.
CheckedRemove(st, key, isDefault, handle, r) ==
  IF viewer = "live" /\ handle \in st.s
    THEN /\ r.ret = "true"
         /\ handle \notin r.st.s
         /\ key \notin DOMAIN (IF isDefault THEN r.st.d ELSE r.st.c)
    ELSE r.ret = "false" /\ r.st = st

\* C9: removeLayerByKey and removeGeoJsonLayer of a registered key.  When the
\* scene removes the object the entry is dropped; when the scene removal does
\* not succeed the call returns false and the entry is retained unchanged.
C9_CheckedRemove ==
  /\ \A key \in (DOMAIN defaultLayerMap) \cup (DOMAIN customLayerMap) :
       LET info == getLayerInfo(Layers, key)
       IN info.layer # Undefined
            => CheckedRemove(Layers, key, info.isDefault, info.layer, removeLayer(Layers, key))
  /\ \A layerId \in (DOMAIN defaultGeoJsonMap) \cup (DOMAIN customGeoJsonMap) :
       LET info == getGeoJsonInfo(GeoJsons, layerId)
       IN CheckedRemove(GeoJsons, layerId, info.isDefault, info.dataSource,
                        removeGeoJson(GeoJsons, layerId))

\* C10: removePrimitiveById of a registered id drops the entry and returns
\* true only if the scene removed the primitive; without a viewer, or with
\* the primitive not in the scene, the entry is retained and the call returns
\* false.
C10_PrimitiveCheckedRemove ==
  [][\A id \in (DOMAIN defaultPrimitiveMap) \cup (DOMAIN customPrimitiveMap) :
       removePrimitiveById(id)
         => LET primitive == getPrimitiveInfo(Primitives, id).primitive
                r == removePrimitive(Primitives, id)
            IN IF viewer = "live" /\ primitive \in scenePrimitives
                 THEN r.ret = "true" /\ primitive \notin scenePrimitives'
                 ELSE r.ret = "false" /\ UNCHANGED primitiveVars]_vars

\* C11: remove of a registered id.  For every kind, remove(id) of an id held
\* by one of the two partitions returns true and leaves the id in neither
\* partition; an entity id removed this way can be added again.
C11_RemoveRegistered ==
  /\ \A id \in defaultEntityIds \cup customEntityIds :
       LET r == removeEntity(Entities, id)
       IN /\ r.ret = "true"
          /\ id \notin r.st.d \cup r.st.c
          /\ addEntity(r.st, id, TRUE, "valid").ret = "entity"
  /\ \A id \in (DOMAIN defaultPrimitiveMap) \cup (DOMAIN customPrimitiveMap) :
       LET r == removePrimitive(Primitives, id)
       IN r.ret = "true" /\ id \notin (DOMAIN r.st.d) \cup (DOMAIN r.st.c)
  /\ \A key \in (DOMAIN defaultLayerMap) \cup (DOMAIN customLayerMap) :
       LET r == removeLayer(Layers, key)
       IN r.ret = "true" /\ key \notin (DOMAIN r.st.d) \cup (DOMAIN r.st.c)
  /\ \A layerId \in (DOMAIN defaultGeoJsonMap) \cup (DOMAIN customGeoJsonMap) :
       LET r == removeGeoJson(GeoJsons, layerId)
       IN r.ret = "true" /\ layerId \notin (DOMAIN r.st.d) \cup (DOMAIN r.st.c)

\* C12: remove of an unknown id.  For every kind, remove(id) of an id that is
\* in neither partition returns false, throws nothing and leaves the
\* partitions and the scene collection as they were.
C12_RemoveUnknown ==
  /\ \A id \in Ids \ (defaultEntityIds \cup customEntityIds) :
       removeEntity(Entities, id) = Out(Entities, "false")
  /\ \A id \in Ids \ ((DOMAIN defaultPrimitiveMap) \cup (DOMAIN customPrimitiveMap)) :
       removePrimitive(Primitives, id) = Out(Primitives, "false")
  /\ \A key \in Ids \ ((DOMAIN defaultLayerMap) \cup (DOMAIN customLayerMap)) :
       removeLayer(Layers, key) = Out(Layers, "false")
  /\ \A layerId \in Ids \ ((DOMAIN defaultGeoJsonMap) \cup (DOMAIN customGeoJsonMap)) :
       removeGeoJson(GeoJsons, layerId) = Out(GeoJsons, "false")

\* A primitive is registered and in the scene while the other id is unknown.
C12_Witness ==
  /\ viewer = "live"
  /\ (DOMAIN defaultPrimitiveMap) \cup (DOMAIN customPrimitiveMap) = {"b"}
  /\ MapValues(defaultPrimitiveMap) \cup MapValues(customPrimitiveMap) \subseteq scenePrimitives
  /\ scenePrimitives # {}

\* C13: no active scene.  An add call of any kind made before a viewer has
\* been initialised throws and stores nothing: it leaves the partitions, the
\* scene and the suspended calls of its kind as they were.
C13_NoActiveScene ==
  [][viewer = "null" =>
       /\ \A id \in Ids, isDefault \in BOOLEAN, opt \in EntityOptions :
            addCesiumEntity(id, isDefault, opt)
              => addEntity(Entities, id, isDefault, opt).ret = "throw" /\ UNCHANGED entityVars
       /\ \A primitives \in PrimitiveLists \ {<<>>} :
            addPrimitivesBatch(primitives)
              => addPrimitives(Primitives, primitives).ret = "throw" /\ UNCHANGED primitiveVars
       /\ \A key \in Ids, isDefault \in BOOLEAN, type \in LayerTypes :
            createLayer(key, isDefault, type)
              => addLayer(Layers, key, isDefault, type).ret = "throw" /\ UNCHANGED layerVars
       /\ \A layerId \in Ids, isDefault \in BOOLEAN :
            addGeoJsonLayer(layerId, isDefault)
              => /\ addGeoJsonLayerCall(GeoJsons, requests, layerId, isDefault).ret = "throw"
                 /\ UNCHANGED geoVars]_vars

\* C14: validation fails fast.  An add call that fails validation (entity
\* without id or position or with unusable graphics; layer config without key
\* or of an unsupported type; primitive list naming a registered id at any
\* position) throws or returns its failure value with the partitions and the
\* scene collection as they were before the call.
C14_ValidationFailsFast ==
  /\ \A id \in Ids, isDefault \in BOOLEAN, opt \in EntityOptions \ {"valid"} :
       addEntity(Entities, id, isDefault, opt) = Out(Entities, "throw")
  /\ \A isDefault \in BOOLEAN, type \in LayerTypes \cup {UnsupportedLayerType} :
       addLayer(Layers, NoKey, isDefault, type) = Out(Layers, "throw")
  /\ \A key \in Ids, isDefault \in BOOLEAN :
       addLayer(Layers, key, isDefault, UnsupportedLayerType) = Out(Layers, "null")
  /\ \A primitives \in PrimitiveLists :
       (primitives # <<>> /\ validatePrimitiveUniqueId(Primitives, primitives[Len(primitives)].id))
         => addPrimitives(Primitives, primitives) = Out(Primitives, "throw")

\* What a best-effort batch remove over a pair of maps must give: `after` has
\* none of the listed ids whose single remove returns true, and holds the
\* entry and the scene object of every id not listed as `st` did.
BatchRemoved(st, after, listed, removable) ==
  /\ \A id \in listed \cap removable : id \notin (DOMAIN after.d) \cup (DOMAIN after.c)
  /\ \A id \in Ids \ listed :
       /\ (id \in DOMAIN after.d) = (id \in DOMAIN st.d)
       /\ (id \in DOMAIN after.c) = (id \in DOMAIN st.c)
       /\ MapGet(after.d, id) = MapGet(st.d, id)
       /\ MapGet(after.c, id) = MapGet(st.c, id)
       /\ {MapGet(st.d, id), MapGet(st.c, id)} \cap st.s \subseteq after.s

\* C15: best-effort batch remove.  batchRemoveCesiumEntities, batchRemoveLayers
\* and batchRemoveGeoJsonLayers go through the whole list, whatever the single
\* removes return: afterwards every listed id whose single remove returns true
\* is in neither partition, and every id not listed has its entries and its
\* scene object as before.
C15_BestEffortBatchRemove ==
  \A ids \in IdLists :
    LET listed == {ids[i] : i \in DOMAIN ids}
    IN /\ LET after == batchRemoveEntities(Entities, ids)
          IN /\ \A id \in listed :
                  removeEntity(Entities, id).ret = "true" => id \notin after.d \cup after.c
             /\ \A id \in Ids \ listed :
                  /\ (id \in after.d) = (id \in defaultEntityIds)
                  /\ (id \in after.c) = (id \in customEntityIds)
                  /\ (id \in after.s) = (id \in sceneEntities)
       /\ BatchRemoved(Layers, batchRemoveLayerKeys(Layers, ids), listed,
                       {key \in Ids : removeLayer(Layers, key).ret = "true"})
       /\ BatchRemoved(GeoJsons, batchRemoveGeoJsons(GeoJsons, ids), listed,
                       {layerId \in Ids : removeGeoJson(GeoJsons, layerId).ret = "true"})

\* All eight partitions are empty.
PartitionsEmpty ==
  /\ defaultEntityIds = {} /\ customEntityIds = {}
  /\ defaultPrimitiveMap = EmptyMap /\ customPrimitiveMap = EmptyMap
  /\ defaultLayerMap = EmptyMap /\ customLayerMap = EmptyMap
  /\ defaultGeoJsonMap = EmptyMap /\ customGeoJsonMap = EmptyMap

\* C16: full teardown.  clearAllResources('all') leaves all eight partitions
\* empty; destroyCesiumViewer on a live viewer does this clear before
\* viewer.destroy(), so that the partitions are empty and no object that was
\* registered is left in the scene of the viewer it destroys.
C16_FullTeardown ==
  [][/\ clearAllResources("all") => PartitionsEmpty'
     /\ (destroyCesiumViewer /\ viewer = "live")
          => /\ PartitionsEmpty'
             /\ viewer' = "destroyed"
             /\ (defaultEntityIds \cup customEntityIds) \cap sceneEntities' = {}
             /\ (MapValues(defaultPrimitiveMap) \cup MapValues(customPrimitiveMap))
                  \cap scenePrimitives' = {}
             /\ (MapValues(defaultLayerMap) \cup MapValues(customLayerMap)) \cap sceneLayers' = {}
             /\ (MapValues(defaultGeoJsonMap) \cup MapValues(customGeoJsonMap))
                  \cap sceneDataSources' = {}]_vars

\* C17: viewer replacement.  No Viewer is replaced in #viewer while it is
\* live (it has been destroyed before initCesiumViewer assigns the new one),
\* and the instance the store holds after setViewer, the one it held before
\* included, is not destroyed.
C17_ViewerReplacement ==
  /\ ~replacedLive
  /\ storeViewer # NoViewer => viewerDestroyCalls[storeViewer] = 0

\* C18: viewer lifecycle.  destroy() is called at most once on a Viewer, and
\* once destroyCesiumViewer has destroyed it #viewer does not refer to it any
\* more, so that no later `this.#viewer?.` reaches it and a second
\* destroyCesiumViewer does nothing.
C18_ViewerLifecycle ==
  /\ destroyCalls <= 1
  /\ viewer # "destroyed"

\* C19: issue order within the GeoJSON kind.  An addGeoJsonLayer call issued
\* before a clearAllGeoJsonLayers('all') or a removeGeoJsonLayer of its layerId
\* takes effect before it: once the clear or the remove has been made, no such
\* call is still suspended to store its layerId afterwards.
C19_IssueOrder ==
  [][/\ clearAllGeoJsonLayers("all") => requests' = EmptyBag
     /\ \A layerId \in Ids :
          removeGeoJsonLayer(layerId)
            => \A r \in BagToSet(requests') : r.layerId # layerId]_vars

\* C20: outcome of an asynchronous add.  A call that resumes after its load
\* ends with its data source in the scene and stored under its layerId in
\* the partition of its provenance and in no other; a call whose load fails
\* ends with the GeoJSON maps and the scene as they were.
C20_AsyncAddOutcome ==
  [][\A r \in Requests :
       /\ addGeoJsonLayerResumed(r)
            => LET mine == IF r.isDefault THEN defaultGeoJsonMap' ELSE customGeoJsonMap'
                   other == IF r.isDefault THEN customGeoJsonMap' ELSE defaultGeoJsonMap'
               IN /\ r.dataSource \in sceneDataSources'
                  /\ MapHas(mine, r.layerId) /\ mine[r.layerId] = r.dataSource
                  /\ ~MapHas(other, r.layerId)
       /\ loadRejected(r)
            => UNCHANGED <<defaultGeoJsonMap, customGeoJsonMap, sceneDataSources>>]_vars

\* The partitions holding id, given the keys of the default and of the custom
\* partition of a kind.
PartitionsOf(defaultKeys, customKeys, id) ==
  (IF id \in defaultKeys THEN {"default"} ELSE {}) \cup
  (IF id \in customKeys THEN {"custom"} ELSE {})

Keys(map) == {id \in Ids : MapHas(map, id)}

\* A createLayer step that removes the layer registered under key and stores
\* the new one: a remove followed by an add.
LayerReplaced(key) ==
  /\ removeLayer(Layers, key).ret = "true"
  /\ \E isDefault \in BOOLEAN, type \in LayerTypes \cup {UnsupportedLayerType} :
       createLayer(key, isDefault, type)

WellFormedHex(text) ==
  /\ Len(text) % 2 = 0
  /\ \A k \in DOMAIN text : IsHexDigit(text[k])

\* The byte sequence a well-formed text stands for.
BytesOf(text) ==
  [k \in 1..(Len(text) \div 2) |-> 16 * HexValue(text[2 * k - 1]) + HexValue(text[2 * k])]

\* The byte sequence handed to the decoder, white space around the text aside.
EwkbBytes == BytesOf(trim(ewkbHex))

\* Bytes b[from] .. b[to], counted from 0, most significant byte first: as they
\* are in big-endian order, reversed where byte 0 declares little-endian.
InDeclaredOrder(b, from, to) ==
  [i \in 1..(to - from + 1) |-> IF b[1] = 1 THEN b[to + 2 - i] ELSE b[from + i]]

\* Bit 0x20000000 of the type code in bytes 1-4, read in the declared order:
\* bit 0x20 of its most significant byte.
SridFlagged(b) == ((IF b[1] = 1 THEN b[5] ELSE b[2]) \div 32) % 2 = 1

\* C22: decoder without SRID flag.  For every byte sequence of at least 21
\* bytes whose type code (bytes 1-4, in the byte order byte 0 declares: 1 is
\* little-endian, anything else big-endian) has bit 0x20000000 clear, decoding
\* returns srid 4326, the longitude of bytes 5-12 and the latitude of bytes
\* 13-20 in that order, whatever the other bits of the type code are.
C22_DecodeWithoutSrid ==
  (WellFormedHex(trim(ewkbHex)) /\ Len(EwkbBytes) >= 21 /\ ~SridFlagged(EwkbBytes))
    => LET result == [error |-> "none",
                      longitude |-> InDeclaredOrder(EwkbBytes, 5, 12),
                      latitude |-> InDeclaredOrder(EwkbBytes, 13, 20),
                      srid |-> [hi |-> 0, lo |-> 4326]]
       IN /\ parseEWKB(ewkbHex) = result
          /\ parsed.error # "notCalled" => parsed = result

\* A little-endian text without SRID, with every other bit of the type code
\* set, has been decoded and its entity registered.
C22_Witness ==
  /\ WellFormedHex(trim(ewkbHex)) /\ Len(EwkbBytes) >= 21 /\ ~SridFlagged(EwkbBytes)
  /\ EwkbBytes[1] = 1 /\ EwkbBytes[5] = 223
  /\ parsed.error = "none"
  /\ parsed.longitude = InDeclaredOrder(EwkbBytes, 5, 12)
  /\ customEntityIds # {}

\* C23: decoder with SRID flag.  For every byte sequence of at least 25 bytes
\* whose type code has bit 0x20000000 set, decoding returns as srid the
\* unsigned 32-bit value of bytes 5-8, the longitude of bytes 9-16 and the
\* latitude of bytes 17-24, all in the declared byte order.
C23_DecodeWithSrid ==
  (WellFormedHex(trim(ewkbHex)) /\ Len(EwkbBytes) >= 25 /\ SridFlagged(EwkbBytes))
    => LET word == InDeclaredOrder(EwkbBytes, 5, 8)
           result == [error |-> "none",
                      longitude |-> InDeclaredOrder(EwkbBytes, 9, 16),
                      latitude |-> InDeclaredOrder(EwkbBytes, 17, 24),
                      srid |-> [hi |-> word[1] * 256 + word[2], lo |-> word[3] * 256 + word[4]]]
       IN /\ parseEWKB(ewkbHex) = result
          /\ parsed.error # "notCalled" => parsed = result

\* A little-endian text with SRID has been decoded, its srid above 2^31, and
\* its entity registered.
C23_Witness ==
  /\ WellFormedHex(trim(ewkbHex)) /\ Len(EwkbBytes) >= 25 /\ SridFlagged(EwkbBytes)
  /\ EwkbBytes[1] = 1
  /\ parsed.error = "none"
  /\ parsed.srid.hi >= 32768
  /\ defaultEntityIds # {}

\* C24: the decoder rejects malformed text.  Decoding a text of odd length, or
\* one with a character that is no hexadecimal digit, fails with an error and
\* returns no result, so that addEWkbLayer on such a text adds no entity.
C24_RejectsMalformedText ==
  (~WellFormedHex(trim(ewkbHex)) /\ parsed.error # "notCalled")
    => /\ parsed.error # "none"
       /\ defaultEntityIds = {} /\ customEntityIds = {}

\* C25: the decoder rejects short input.  Decoding fails with an error and
\* returns no result whenever the byte sequence is shorter than the header and
\* two 8-byte floats: fewer than 21 bytes without the SRID flag, fewer than 25
\* with it, the empty text included.
C25_RejectsShortInput ==
  (/\ WellFormedHex(trim(ewkbHex))
   /\ \/ Len(EwkbBytes) < 21
      \/ Len(EwkbBytes) < 25 /\ SridFlagged(EwkbBytes))
    => /\ parseEWKB(ewkbHex).error = "RangeError"
       /\ parsed.error # "notCalled"
            => parsed.error = "RangeError" /\ defaultEntityIds = {} /\ customEntityIds = {}

\* A call has failed on a text of 24 bytes with the SRID flag set.
C25_Witness ==
  /\ WellFormedHex(trim(ewkbHex))
  /\ Len(EwkbBytes) = 24 /\ SridFlagged(EwkbBytes)
  /\ parsed.error = "RangeError"
  /\ viewer = "live"

\* The handle the default partition holds for id where id is a key of it,
\* otherwise the one the custom partition holds, otherwise none.
DefaultFirst(st, id) ==
  IF MapHas(st.d, id) THEN st.d[id]
  ELSE IF MapHas(st.c, id) THEN st.c[id]
  ELSE Undefined

C27_BatchRegistrationComplete ==
  [][\A primitives \in PrimitiveLists :
       (addPrimitivesBatch(primitives) /\ addPrimitives(Primitives, primitives).ret = "void")
         => \A i \in DOMAIN primitives :
              LET primitive == getPrimitiveById(Primitives', primitives[i].id)
              IN /\ primitive # Undefined
                 /\ primitive \in scenePrimitives'
                 /\ primitive \notin scenePrimitives]_vars

\* C28: hide hides the labels.  After hideGeoJsonLayer(layerId) returns true
\* the data source has show = false, the labels of its entities have
\* show = false and getGeoJsonLayerVisibility(layerId) is false; after
\* showGeoJsonLayer(layerId) returns true both are true again.  For a layerId
\* that is not registered both return false and change nothing.
C28_HideHidesLabels ==
  [][\A layerId \in Ids :
       LET dataSource == getGeoJsonLayerById(GeoJsons, layerId)
       IN /\ (hideGeoJsonLayer(layerId) /\ dataSource # Undefined)
               => /\ hideGeoJson(GeoJsons, dataSourceShow, labelShow, layerId).ret = "true"
                  /\ dataSourceShow'[dataSource] = FALSE
                  /\ labelShow'[dataSource] = FALSE
                  /\ getGeoJsonLayerVisibility(GeoJsons', dataSourceShow', layerId) = "false"
          /\ (showGeoJsonLayer(layerId) /\ dataSource # Undefined)
               => /\ showGeoJson(GeoJsons, dataSourceShow, labelShow, layerId).ret = "true"
                  /\ dataSourceShow'[dataSource] = TRUE
                  /\ labelShow'[dataSource] = TRUE
                  /\ getGeoJsonLayerVisibility(GeoJsons', dataSourceShow', layerId) = "true"
          /\ ((hideGeoJsonLayer(layerId) \/ showGeoJsonLayer(layerId)) /\ dataSource = Undefined)
               => /\ hideGeoJson(GeoJsons, dataSourceShow, labelShow, layerId).ret = "false"
                  /\ showGeoJson(GeoJsons, dataSourceShow, labelShow, layerId).ret = "false"
                  /\ UNCHANGED vars]_vars

\* C29: default clear scope.  clearAllEntities, clearAllPrimitives,
\* clearAllLayers, clearAllGeoJsonLayers and clearAllResources called without
\* an argument act as the clear of 'custom': they empty the custom partitions
\* and remove no entry of a default partition.
C29_DefaultClearScope ==
  LET entities == clearEntities(Entities, clearTypeParameter(Omitted))
      primitives == clearPrimitives(Primitives, clearTypeParameter(Omitted))
      layers == clearLayers(Layers, clearTypeParameter(Omitted))
      geoJsons == clearGeoJsons(GeoJsons, clearTypeParameter(Omitted))
  IN /\ entities = clearEntities(Entities, "custom")
     /\ entities.c = {} /\ entities.d = defaultEntityIds
     /\ primitives = clearPrimitives(Primitives, "custom")
     /\ primitives.c = EmptyMap /\ primitives.d = defaultPrimitiveMap
     /\ layers = clearLayers(Layers, "custom")
     /\ layers.c = EmptyMap /\ layers.d = defaultLayerMap
     /\ geoJsons = clearGeoJsons(GeoJsons, "custom")
     /\ geoJsons.c = EmptyMap /\ geoJsons.d = defaultGeoJsonMap

\* The primitives of the custom partition are gone, the one of the default
\* partition, created after them, is registered and in the scene.
C29_Witness ==
  /\ viewer = "live"
  /\ customPrimitiveMap = EmptyMap
  /\ MapHas(defaultPrimitiveMap, "a") /\ defaultPrimitiveMap["a"] = 2
  /\ scenePrimitives = {2}

====
